---- MODULE Spec2Model ----
(***************************************************************************)
(* Model of the "esc env open" command (cmd/esc/cli/env_open.go):          *)
(* argument validation, the two-step open/fetch protocol against the       *)
(* remote service, and the rendering of the opened environment.            *)
(*                                                                         *)
(* Go strings are modelled as sequences of byte values (0..127), so that   *)
(* sort.Strings and the %q verb are computed, not assumed.                 *)
(***************************************************************************)
EXTENDS Integers, Sequences, FiniteSets

(***************************************************************************)
(* Bounds of the model                                                     *)
(***************************************************************************)
\* longest string value of an environment variable
MaxStrLen == 2
\* largest number of entries of environmentVariables
MaxVars == 2

(***************************************************************************)
(* Byte strings                                                            *)
(***************************************************************************)
\* bytes used to build the string values of the model: A " \ newline, and
\* the control bytes BEL and DEL
Alphabet == {65, 34, 92, 10, 7, 127}

RECURSIVE StringsUpTo(_)
StringsUpTo(n) ==
  IF n = 0 THEN {<<>>}
  ELSE LET shorter == StringsUpTo(n - 1)
       IN shorter \cup {Append(s, c) : s \in {t \in shorter : Len(t) = n - 1}, c \in Alphabet}

RECURSIVE Concat(_)
\* concatenation of a sequence of byte strings
Concat(ss) == IF ss = <<>> THEN <<>> ELSE Head(ss) \o Concat(Tail(ss))

\* Go's string comparison a < b: bytewise lexicographic, a proper prefix first
RECURSIVE StrLess(_, _)
StrLess(a, b) ==
  IF b = <<>> THEN FALSE
  ELSE IF a = <<>> THEN TRUE
  ELSE IF Head(a) # Head(b) THEN Head(a) < Head(b)
  ELSE StrLess(Tail(a), Tail(b))

\* the bytes of some literal strings of the program
StrNull == <<110, 117, 108, 108>>
StrTrue == <<116, 114, 117, 101>>
StrFalse == <<102, 97, 108, 115, 101>>
StrExport == <<101, 120, 112, 111, 114, 116, 32>>
StrValue == <<118, 97, 108, 117, 101>>
StrSecret == <<115, 101, 99, 114, 101, 116>>
StrTrace == <<116, 114, 97, 99, 101>>
\* "environmentVariables"
EnvVarsKey == <<101, 110, 118, 105, 114, 111, 110, 109, 101, 110, 116,
                86, 97, 114, 105, 97, 98, 108, 101, 115>>

\* lowerhex[d] of strconv
HexDigit(d) == IF d < 10 THEN 48 + d ELSE 87 + d

\* strconv's escape of one ASCII byte inside a double-quoted literal
QuoteByte(c) ==
  IF c = 34 THEN <<92, 34>>
  ELSE IF c = 92 THEN <<92, 92>>
  ELSE IF c >= 32 /\ c <= 126 THEN <<c>>
  ELSE IF c = 7 THEN <<92, 97>>
  ELSE IF c = 8 THEN <<92, 98>>
  ELSE IF c = 12 THEN <<92, 102>>
  ELSE IF c = 10 THEN <<92, 110>>
  ELSE IF c = 13 THEN <<92, 114>>
  ELSE IF c = 9 THEN <<92, 116>>
  ELSE IF c = 11 THEN <<92, 118>>
  ELSE <<92, 120, HexDigit(c \div 16), HexDigit(c % 16)>>

\* a faulty variant of Quote: the string is put between the quotes as it is
QuoteVerbatim(s) == <<34>> \o s \o <<34>>

\* the %q verb on a string (strconv.Quote), for ASCII strings
Quote(s) == <<34>> \o Concat([i \in 1..Len(s) |-> QuoteByte(s[i])]) \o <<34>>

(***************************************************************************)
(* Values (esc.Value): nil, bool, json.Number, string, []Value or          *)
(* map[string]Value, with the secret flag.  A record carries every field;  *)
(* kind tells which one is meaningful.                                     *)
(***************************************************************************)
NullV == [kind |-> "null", b |-> FALSE, n |-> <<>>, s |-> <<>>, l |-> <<>>, m |-> <<>>, secret |-> FALSE]
BoolV(b) == [NullV EXCEPT !.kind = "bool", !.b = b]
NumV(n) == [NullV EXCEPT !.kind = "number", !.n = n]
StrV(s) == [NullV EXCEPT !.kind = "string", !.s = s]
ListV(l) == [NullV EXCEPT !.kind = "list", !.l = l]
MapV(m) == [NullV EXCEPT !.kind = "map", !.m = m]
SecretV(v) == [v EXCEPT !.secret = TRUE]

\* esc.NewValue on a map[string]Value
NewValue(props) == MapV(props)

\* m[k] of a Go map: the zero Value when the key is absent
MapIndex(m, k) == IF k \in DOMAIN m THEN m[k] ELSE NullV

(***************************************************************************)
(* Errors: nil or an error value, told apart by kind and detail            *)
(***************************************************************************)
NoErr == [kind |-> "nil", detail |-> ""]
ErrInvalidPath(text) == [kind |-> "invalid property path", detail |-> text]
ErrPathNotAllowed(format) == [kind |-> "format may not be used with a property path", detail |-> format]
ErrUnknownFormat(format) == [kind |-> "unknown output format", detail |-> format]
ErrTransport(id) == [kind |-> "transport", detail |-> id]
ErrLogin == [kind |-> "login", detail |-> "no credentials"]

(***************************************************************************)
(* Path Navigator                                                          *)
(***************************************************************************)
\* the elements of a resource.PropertyPath: a string key or an int index
KeySeg(k) == [isKey |-> TRUE, key |-> k, index |-> 0]
IndexSeg(i) == [isKey |-> FALSE, key |-> <<>>, index |-> i]

RECURSIVE getEnvValue(_, _)
getEnvValue(root, path) ==
  IF path = <<>> THEN [ok |-> TRUE, v |-> root]
  ELSE LET seg == Head(path)
       IN IF root.kind = "map" /\ seg.isKey /\ seg.key \in DOMAIN root.m
          THEN getEnvValue(root.m[seg.key], Tail(path))
          ELSE IF root.kind = "list" /\ ~seg.isKey
                  /\ seg.index >= 0 /\ seg.index < Len(root.l)
          THEN getEnvValue(root.l[seg.index + 1], Tail(path))
          ELSE [ok |-> FALSE, v |-> NullV]

(***************************************************************************)
(* sort.Strings and the iteration order of a Go map                        *)
(***************************************************************************)
RECURSIVE InsertSorted(_, _)
InsertSorted(sorted, k) ==
  IF sorted = <<>> THEN <<k>>
  ELSE IF StrLess(k, Head(sorted)) THEN <<k>> \o sorted
  ELSE <<Head(sorted)>> \o InsertSorted(Tail(sorted), k)

\* a faulty variant of SortStrings: the keys are left in the order of the map
SortStringsNone(keys) == keys

RECURSIVE SortStrings(_)
SortStrings(keys) ==
  IF keys = <<>> THEN <<>>
  ELSE InsertSorted(SortStrings(Tail(keys)), Head(keys))

\* maps.Keys(m): the keys of m in an indeterminate order
KeyOrders(m) ==
  {o \in [1..Cardinality(DOMAIN m) -> DOMAIN m] :
     \A i, j \in DOMAIN o : i # j => o[i] # o[j]}

\* the keys of m in ascending order, as encoding/json and Value.ToString visit them
SortedKeys(m) == SortStrings(CHOOSE o \in KeyOrders(m) : TRUE)

(***************************************************************************)
(* getEnvironmentVariables                                                 *)
(***************************************************************************)
\* a faulty variant of getEnvironmentVariables: an entry that is not a string is
\* formatted too (with the empty string) instead of being skipped
getEnvironmentVariablesNoFilter(env, keyOrder) ==
  LET ev == MapIndex(env.Properties, EnvVarsKey)
  IN IF ev.kind # "map" THEN <<>>
     ELSE LET keys == SortStrings(keyOrder)
          IN [i \in 1..Len(keys) |-> keys[i] \o <<61>> \o Quote(ev.m[keys[i]].s)]

\* a faulty variant of getEnvironmentVariables: a value of the wrong shape yields a
\* line instead of nothing
getEnvironmentVariablesNoShape(env, keyOrder) ==
  LET ev == MapIndex(env.Properties, EnvVarsKey)
  IN IF ev.kind # "map" THEN <<EnvVarsKey \o <<61>> \o Quote(ev.s)>>
     ELSE LET keys == SortStrings(keyOrder)
              strKeys == SelectSeq(keys, LAMBDA k : ev.m[k].kind = "string")
          IN [i \in 1..Len(strKeys) |->
                strKeys[i] \o <<61>> \o Quote(ev.m[strKeys[i]].s)]

\* keyOrder is what maps.Keys(vars) returned
getEnvironmentVariables(env, keyOrder) ==
  LET ev == MapIndex(env.Properties, EnvVarsKey)
  IN IF ev.kind # "map" THEN <<>>
     ELSE LET keys == SortStrings(keyOrder)
              strKeys == SelectSeq(keys, LAMBDA k : ev.m[k].kind = "string")
          IN [i \in 1..Len(strKeys) |->
                strKeys[i] \o <<61>> \o Quote(ev.m[strKeys[i]].s)]

(***************************************************************************)
(* Encoders used by the json, detailed and string formats                  *)
(***************************************************************************)
\* encoding/json's escape of one ASCII byte of a string (HTML escaping on)
JSONByte(c) ==
  IF c = 34 THEN <<92, 34>>
  ELSE IF c = 92 THEN <<92, 92>>
  ELSE IF c = 8 THEN <<92, 98>>
  ELSE IF c = 12 THEN <<92, 102>>
  ELSE IF c = 10 THEN <<92, 110>>
  ELSE IF c = 13 THEN <<92, 114>>
  ELSE IF c = 9 THEN <<92, 116>>
  ELSE IF c < 32 \/ c \in {60, 62, 38}
       THEN <<92, 117, 48, 48, HexDigit(c \div 16), HexDigit(c % 16)>>
  ELSE <<c>>

JSONString(s) == <<34>> \o Concat([i \in 1..Len(s) |-> JSONByte(s[i])]) \o <<34>>

\* the indentation set by enc.SetIndent("", "  ") at a nesting depth
Indent(depth) == [i \in 1..(2 * depth) |-> 32]

\* the elements of a JSON array or object, one per line, separated by commas
RECURSIVE JoinLines(_, _)
JoinLines(items, depth) ==
  IF items = <<>> THEN <<>>
  ELSE <<10>> \o Indent(depth) \o Head(items)
       \o (IF Len(items) > 1 THEN <<44>> ELSE <<>>)
       \o JoinLines(Tail(items), depth)

\* Value.ToJSON(false): the plain projection, the secret flags dropped
RECURSIVE ToJSON(_)
ToJSON(v) ==
  IF v.kind = "list" THEN ListV([i \in 1..Len(v.l) |-> ToJSON(v.l[i])])
  ELSE IF v.kind = "map" THEN MapV([k \in DOMAIN v.m |-> ToJSON(v.m[k])])
  ELSE [v EXCEPT !.secret = FALSE]

\* json.Encoder with two-space indentation; detailed = the Value structs
\* themselves are encoded (fields value, secret and trace) instead of their
\* plain projection
RECURSIVE EncodeAny(_, _, _)
RECURSIVE EncodeValue(_, _)
EncodeAny(v, depth, detailed) ==
  LET Elem(e) == IF detailed THEN EncodeValue(e, depth + 1)
                 ELSE EncodeAny(e, depth + 1, FALSE)
  IN CASE v.kind = "null" -> StrNull
       [] v.kind = "bool" -> IF v.b THEN StrTrue ELSE StrFalse
       [] v.kind = "number" -> v.n
       [] v.kind = "string" -> JSONString(v.s)
       [] v.kind = "list" ->
            IF v.l = <<>> THEN <<91, 93>>
            ELSE <<91>> \o JoinLines([i \in 1..Len(v.l) |-> Elem(v.l[i])], depth + 1)
                 \o <<10>> \o Indent(depth) \o <<93>>
       [] v.kind = "map" ->
            LET keys == SortedKeys(v.m)
            IN IF keys = <<>> THEN <<123, 125>>
               ELSE <<123>>
                    \o JoinLines([i \in 1..Len(keys) |->
                         JSONString(keys[i]) \o <<58, 32>> \o Elem(v.m[keys[i]])], depth + 1)
                    \o <<10>> \o Indent(depth) \o <<125>>

EncodeValue(v, depth) ==
  LET fvalue == IF v.kind = "null" THEN <<>>
                ELSE <<JSONString(StrValue) \o <<58, 32>> \o EncodeAny(v, depth + 1, TRUE)>>
      fsecret == IF v.secret THEN <<JSONString(StrSecret) \o <<58, 32>> \o StrTrue>>
                 ELSE <<>>
      ftrace == <<JSONString(StrTrace) \o <<58, 32, 123, 125>>>>
  IN <<123>> \o JoinLines(fvalue \o fsecret \o ftrace, depth + 1)
     \o <<10>> \o Indent(depth) \o <<125>>

\* strings.Join(items, ",")
RECURSIVE JoinComma(_)
JoinComma(items) ==
  IF items = <<>> THEN <<>>
  ELSE Head(items) \o (IF Len(items) > 1 THEN <<44>> ELSE <<>>) \o JoinComma(Tail(items))

\* Value.ToString(false)
RECURSIVE ValueToString(_)
ValueToString(v) ==
  CASE v.kind = "null" -> <<>>
    [] v.kind = "bool" -> IF v.b THEN StrTrue ELSE StrFalse
    [] v.kind = "number" -> v.n
    [] v.kind = "string" -> v.s
    [] v.kind = "list" -> JoinComma([i \in 1..Len(v.l) |-> Quote(ValueToString(v.l[i]))])
    [] v.kind = "map" ->
         LET keys == SortedKeys(v.m)
         IN JoinComma([i \in 1..Len(keys) |->
              Quote(keys[i]) \o <<61>> \o Quote(ValueToString(v.m[keys[i]]))])

(***************************************************************************)
(* renderValue                                                             *)
(***************************************************************************)
\* an *esc.Environment: nil, or its Properties
NilEnv == [isNil |-> TRUE, Properties |-> <<>>]
Environment(props) == [isNil |-> FALSE, Properties |-> props]

\* fmt.Fprintln(out, kvp) / fmt.Fprintf(out, "export %v\n", kvp) for each kvp
WriteLines(environ, prefix) ==
  Concat([i \in 1..Len(environ) |-> prefix \o environ[i] \o <<10>>])

\* a faulty variant of renderValue: a path that does not resolve is an error
renderValueMissFails(env, path, format, keyOrder) ==
  IF env.isNil THEN [out |-> <<>>, err |-> NoErr]
  ELSE LET root == NewValue(env.Properties)
           r == getEnvValue(root, path)
           val == IF r.ok THEN r.v ELSE NullV
       IN IF ~r.ok THEN [out |-> <<>>, err |-> ErrInvalidPath("")]
          ELSE CASE format = "json" ->
                 [out |-> EncodeAny(ToJSON(val), 0, FALSE) \o <<10>>, err |-> NoErr]
            [] format = "detailed" ->
                 [out |-> EncodeValue(val, 0) \o <<10>>, err |-> NoErr]
            [] format = "dotenv" ->
                 [out |-> WriteLines(getEnvironmentVariables(env, keyOrder), <<>>),
                  err |-> NoErr]
            [] format = "shell" ->
                 [out |-> WriteLines(getEnvironmentVariables(env, keyOrder), StrExport),
                  err |-> NoErr]
            [] format = "string" ->
                 [out |-> ValueToString(val) \o <<10>>, err |-> NoErr]
            [] OTHER -> [out |-> <<>>, err |-> ErrUnknownFormat(format)]

\* the bytes written to out and the error returned
renderValue(env, path, format, keyOrder) ==
  IF env.isNil THEN [out |-> <<>>, err |-> NoErr]
  ELSE LET root == NewValue(env.Properties)
           r == getEnvValue(root, path)
           val == IF Len(path) # 0
                  THEN (IF r.ok THEN r.v ELSE NullV)
                  ELSE root
       IN CASE format = "json" ->
                 [out |-> EncodeAny(ToJSON(val), 0, FALSE) \o <<10>>, err |-> NoErr]
            [] format = "detailed" ->
                 [out |-> EncodeValue(val, 0) \o <<10>>, err |-> NoErr]
            [] format = "dotenv" ->
                 [out |-> WriteLines(getEnvironmentVariables(env, keyOrder), <<>>),
                  err |-> NoErr]
            [] format = "shell" ->
                 [out |-> WriteLines(getEnvironmentVariables(env, keyOrder), StrExport),
                  err |-> NoErr]
            [] format = "string" ->
                 [out |-> ValueToString(val) \o <<10>>, err |-> NoErr]
            [] OTHER -> [out |-> <<>>, err |-> ErrUnknownFormat(format)]

(***************************************************************************)
(* Inputs of the model                                                     *)
(***************************************************************************)
\* a map with one entry, and the union of two maps with disjoint keys
Map1(k, v) == [x \in {k} |-> v]
Merge(f, g) == [x \in (DOMAIN f) \cup (DOMAIN g) |-> IF x \in DOMAIN f THEN f[x] ELSE g[x]]

\* values of the --format flag; "bogus" is not a format
Formats == {"json", "detailed", "dotenv", "shell", "string", "bogus"}

\* the keys x, y, z, l and the strings A, B, a, AB, 1, 2, 42
KeyX == <<120>>
KeyY == <<121>>
KeyL == <<108>>
StrA == <<65>>
StrB == <<66>>

\* resource.ParsePropertyPath on the property-path arguments of the model
PathTexts == {"", "x", "x.y", "x.z", "l[0]", "l[7]", "x[0]", "l.y", "x[", ".x"}
ParsePropertyPath(text) ==
  CASE text = "" -> [ok |-> TRUE, path |-> <<>>]
    [] text = "x" -> [ok |-> TRUE, path |-> <<KeySeg(KeyX)>>]
    [] text = "x.y" -> [ok |-> TRUE, path |-> <<KeySeg(KeyX), KeySeg(KeyY)>>]
    [] text = "x.z" -> [ok |-> TRUE, path |-> <<KeySeg(KeyX), KeySeg(<<122>>)>>]
    [] text = "l[0]" -> [ok |-> TRUE, path |-> <<KeySeg(KeyL), IndexSeg(0)>>]
    [] text = "l[7]" -> [ok |-> TRUE, path |-> <<KeySeg(KeyL), IndexSeg(7)>>]
    [] text = "x[0]" -> [ok |-> TRUE, path |-> <<KeySeg(KeyX), IndexSeg(0)>>]
    [] text = "l.y" -> [ok |-> TRUE, path |-> <<KeySeg(KeyL), KeySeg(KeyY)>>]
    [] OTHER -> [ok |-> FALSE, path |-> <<>>]

\* the command line: [<org-name>/]<environment-name> [property path]
EnvArgs == {"dev", "acme/prod"}
ArgLists == {<<>>} \cup {<<e>> : e \in EnvArgs}
              \cup {<<e, p>> : e \in EnvArgs, p \in PathTexts}

\* trees to navigate: {"x": {"y": 42}, "l": ["A", true]} and smaller ones
TreeXY == Merge(Map1(KeyX, MapV(Map1(KeyY, NumV(<<52, 50>>)))),
                Map1(KeyL, ListV(<<StrV(StrA), BoolV(TRUE)>>)))
\* {"environmentVariables": {"B": "2", "A": "1"}, "x": "A"}
TreeBA == Merge(Map1(EnvVarsKey, MapV(Merge(Map1(StrB, StrV(<<50>>)), Map1(StrA, StrV(<<49>>))))),
                Map1(KeyX, SecretV(StrV(StrA))))
NavTrees == {Environment(TreeXY), Environment(TreeBA), Environment(<<>>)}

\* one value of each shape, the string among them
ShapeVals ==
  {StrV(StrA), NullV, BoolV(TRUE), NumV(<<52, 50>>), ListV(<<StrV(StrA)>>),
   MapV(Map1(StrA, StrV(StrA))), SecretV(StrV(StrA))}

\* the names of the environment variables: A, AB, a
KeyPool == {<<65>>, <<65, 66>>, <<97>>}

\* the values a variable takes in the model: the variable A takes every
\* string up to MaxStrLen and every shape, the others every shape
EnvVals(k) ==
  IF k = StrA THEN {StrV(s) : s \in StringsUpTo(MaxStrLen)} \cup ShapeVals
  ELSE ShapeVals

\* the mappings of the names S to their values
RECURSIVE VarMaps(_)
VarMaps(S) ==
  IF S = {} THEN {<<>>}
  ELSE LET k == CHOOSE x \in S : TRUE
       IN {Merge(Map1(k, v), f) : v \in EnvVals(k), f \in VarMaps(S \ {k})}

\* environments whose environmentVariables is a mapping of at most MaxVars entries
EnvTrees ==
  {Environment(Map1(EnvVarsKey, MapV(f))) :
     f \in UNION {VarMaps(S) : S \in {T \in SUBSET KeyPool : Cardinality(T) <= MaxVars}}}

\* environments whose environmentVariables is absent or not a mapping
ShapelessTrees ==
  {Environment(<<>>), Environment(TreeXY)}
    \cup {Environment(Map1(EnvVarsKey, v)) :
            v \in {NullV, BoolV(TRUE), NumV(<<52, 50>>), StrV(StrA), ListV(<<StrV(StrA)>>)}}

\* what the remote service answers
SessionIDs == {"s1", "s2"}
DiagLists == {<<>>, <<"d1">>, <<"d1", "d2">>}
OpenErrs == {NoErr, ErrTransport("open failed")}
FetchErrs == {NoErr, ErrTransport("fetch failed")}
Lifetime == "2h0m0s"

(***************************************************************************)
(* The state of one run of the open command                                *)
(***************************************************************************)
VARIABLES
  args,      \* the positional arguments of the command
  format,    \* the --format flag
  pc,        \* where the run is: "RunE", "OpenEnvironment",
             \* "GetOpenEnvironment", "renderValue" or "done"
  orgName, envName, path,   \* set by the validation of the arguments
  envID,     \* the session handle openEnvironment holds
  opened,    \* what openEnvironment returned: env, diags, err
  calls,     \* the remote calls made so far, each with its answer
  rendered,  \* renderValue was invoked
  out,       \* the bytes written to stdout
  errOut,    \* the diagnostics written to stderr
  result     \* the error RunE returned (meaningful once pc = "done")

vars == <<args, format, pc, orgName, envName, path, envID, opened, calls,
          rendered, out, errOut, result>>

NotOpened == [returned |-> FALSE, env |-> NilEnv, diags |-> <<>>, err |-> NoErr]
Returned(env, diags, err) == [returned |-> TRUE, env |-> env, diags |-> diags, err |-> err]

\* envcmd.getEnvName: the first argument names the environment, the rest
\* of the arguments is returned
getEnvName(as) ==
  IF as = <<>> THEN [ok |-> FALSE, orgName |-> "", envName |-> "", args |-> <<>>]
  ELSE IF Head(as) = "acme/prod"
  THEN [ok |-> TRUE, orgName |-> "acme", envName |-> "prod", args |-> Tail(as)]
  ELSE [ok |-> TRUE, orgName |-> "", envName |-> Head(as), args |-> Tail(as)]

ErrEnvName == [kind |-> "environment name", detail |-> ""]

\* a faulty variant of validate: the format is not checked before the open
validateNoFormat(as, fmt) ==
  LET n == getEnvName(as)
      p == IF Len(n.args) = 1 THEN ParsePropertyPath(n.args[1])
           ELSE [ok |-> TRUE, path |-> <<>>]
      r == [err |-> NoErr, orgName |-> n.orgName, envName |-> n.envName, path |-> p.path]
  IN IF ~n.ok THEN [r EXCEPT !.err = ErrEnvName]
     ELSE IF ~p.ok THEN [r EXCEPT !.err = ErrInvalidPath(n.args[1])]
     ELSE r

\* RunE after the client is there: the environment name, the property path
\* and the format are checked; err is nil when the run may go on
validate(as, fmt) ==
  LET n == getEnvName(as)
      p == IF Len(n.args) = 1 THEN ParsePropertyPath(n.args[1])
           ELSE [ok |-> TRUE, path |-> <<>>]
      r == [err |-> NoErr, orgName |-> n.orgName, envName |-> n.envName, path |-> p.path]
  IN IF ~n.ok THEN [r EXCEPT !.err = ErrEnvName]
     ELSE IF ~p.ok THEN [r EXCEPT !.err = ErrInvalidPath(n.args[1])]
     ELSE IF fmt \in {"detailed", "json", "string"} THEN r
     ELSE IF fmt \in {"dotenv", "shell"}
     THEN (IF Len(p.path) # 0 THEN [r EXCEPT !.err = ErrPathNotAllowed(fmt)] ELSE r)
     ELSE [r EXCEPT !.err = ErrUnknownFormat(fmt)]

\* faulty variants of openEnvironmentOpened: the diagnostics do not stop the fetch;
\* the diagnostics are looked at before the error and returned with it
openEnvironmentOpenedNoDiags(id, diags, err) ==
  IF err # NoErr THEN [fetch |-> FALSE, ret |-> Returned(NilEnv, <<>>, err)]
  ELSE [fetch |-> TRUE, ret |-> NotOpened]

openEnvironmentOpenedDiagsFirst(id, diags, err) ==
  IF Len(diags) # 0 THEN [fetch |-> FALSE, ret |-> Returned(NilEnv, diags, err)]
  ELSE IF err # NoErr THEN [fetch |-> FALSE, ret |-> Returned(NilEnv, <<>>, err)]
  ELSE [fetch |-> TRUE, ret |-> NotOpened]

\* openEnvironment once OpenEnvironment has answered: it returns, or goes
\* on to fetch the environment
openEnvironmentOpened(id, diags, err) ==
  IF err # NoErr THEN [fetch |-> FALSE, ret |-> Returned(NilEnv, <<>>, err)]
  ELSE IF Len(diags) # 0 THEN [fetch |-> FALSE, ret |-> Returned(NilEnv, diags, err)]
  ELSE [fetch |-> TRUE, ret |-> NotOpened]

\* a faulty variant of fetchRequest: the handle of another session is passed
fetchRequestOtherHandle(org, env, id) ==
  [op |-> "GetOpenEnvironment", orgName |-> org, envName |-> env,
   envID |-> IF id = "s1" THEN "s2" ELSE "s1", duration |-> ""]

\* the arguments of the two remote calls
openRequest(org, env, duration) ==
  [op |-> "OpenEnvironment", orgName |-> org, envName |-> env,
   envID |-> "", duration |-> duration]
fetchRequest(org, env, id) ==
  [op |-> "GetOpenEnvironment", orgName |-> org, envName |-> env,
   envID |-> id, duration |-> ""]

\* a remote call and its answer
Call(req, rEnvID, rDiags, rEnv, rErr) ==
  [req |-> req, rEnvID |-> rEnvID, rDiags |-> rDiags, rEnv |-> rEnv, rErr |-> rErr]

\* a faulty variant of afterOpen: the error of openEnvironment is dropped
afterOpenDropErr(ret) ==
  IF Len(ret.diags) # 0 THEN "diagnostics" ELSE "render"

\* RunE once openEnvironment has returned
afterOpen(ret) ==
  IF ret.err # NoErr THEN "error"
  ELSE IF Len(ret.diags) # 0 THEN "diagnostics"
  ELSE "render"

\* openEnvironment once GetOpenEnvironment has answered
openEnvironmentFetched(open, err) == Returned(open, <<>>, err)

\* the entries of environmentVariables, when it is a mapping
EnvVarsOf(env) ==
  LET ev == MapIndex(env.Properties, EnvVarsKey)
  IN IF ev.kind = "map" THEN ev.m ELSE <<>>

\* what writePropertyEnvironmentDiagnostics may return
ErrDiagnostics == [kind |-> "diagnostics", detail |-> ""]

\* the environments GetOpenEnvironment answers with in a run of the command
FetchedEnvs == NavTrees \cup {NilEnv}

(***************************************************************************)
(* The run of the command                                                  *)
(***************************************************************************)
Init ==
  /\ args \in ArgLists
  /\ format \in Formats
  /\ pc = "RunE"
  /\ orgName = "" /\ envName = "" /\ path = <<>>
  /\ envID = ""
  /\ opened = NotOpened
  /\ calls = <<>>
  /\ rendered = FALSE
  /\ out = <<>>
  /\ errOut = <<>>
  /\ result = NoErr

\* RunE up to the call of openEnvironment: getCachedClient, getEnvName,
\* the property path and the format
Validate ==
  /\ pc = "RunE"
  /\ \E clientOk \in BOOLEAN :
       IF ~clientOk
       THEN /\ pc' = "done"
            /\ result' = ErrLogin
            /\ UNCHANGED <<orgName, envName, path>>
       ELSE LET v == validate(args, format)
            IN /\ orgName' = v.orgName
               /\ envName' = v.envName
               /\ path' = v.path
               /\ result' = v.err
               /\ pc' = IF v.err # NoErr THEN "done" ELSE "OpenEnvironment"
  /\ UNCHANGED <<args, format, envID, opened, calls, rendered, out, errOut>>

\* RunE takes the result of openEnvironment: the error is returned, or the
\* diagnostics are written, or the environment is rendered next
RunEReturns(ret) ==
  /\ opened' = ret
  /\ CASE afterOpen(ret) = "error" ->
            /\ pc' = "done"
            /\ result' = ret.err
            /\ UNCHANGED errOut
       [] afterOpen(ret) = "diagnostics" ->
            /\ pc' = "done"
            /\ errOut' = errOut \o ret.diags
            /\ result' \in {NoErr, ErrDiagnostics}
       [] OTHER ->
            /\ pc' = "renderValue"
            /\ UNCHANGED <<errOut, result>>

\* openEnvironment calls OpenEnvironment and takes its answer
OpenEnvironment ==
  /\ pc = "OpenEnvironment"
  /\ \E id \in SessionIDs, diags \in DiagLists, err \in OpenErrs :
       LET o == openEnvironmentOpened(id, diags, err)
       IN /\ calls' = Append(calls,
                        Call(openRequest(orgName, envName, Lifetime), id, diags, NilEnv, err))
          /\ envID' = id
          /\ IF o.fetch
             THEN /\ pc' = "GetOpenEnvironment"
                  /\ UNCHANGED <<opened, errOut, result>>
             ELSE RunEReturns(o.ret)
  /\ UNCHANGED <<args, format, orgName, envName, path, rendered, out>>

\* openEnvironment calls GetOpenEnvironment and returns its answer
GetOpenEnvironment ==
  /\ pc = "GetOpenEnvironment"
  /\ \E env \in FetchedEnvs, err \in FetchErrs :
       /\ calls' = Append(calls,
                     Call(fetchRequest(orgName, envName, envID), "", <<>>, env, err))
       /\ RunEReturns(openEnvironmentFetched(env, err))
  /\ UNCHANGED <<args, format, orgName, envName, path, envID, rendered, out>>

\* RunE renders the environment and returns
RenderValue ==
  /\ pc = "renderValue"
  /\ \E keyOrder \in KeyOrders(EnvVarsOf(opened.env)) :
       LET r == renderValue(opened.env, path, format, keyOrder)
       IN /\ out' = out \o r.out
          /\ result' = r.err
  /\ rendered' = TRUE
  /\ pc' = "done"
  /\ UNCHANGED <<args, format, orgName, envName, path, envID, opened, calls, errOut>>

Next == Validate \/ OpenEnvironment \/ GetOpenEnvironment \/ RenderValue

Spec == Init /\ [][Next]_vars

(***************************************************************************)
(* renderValue on the environments with environment variables: the run is  *)
(* taken where openEnvironment has returned one of them and the format is  *)
(* dotenv or shell                                                         *)
(***************************************************************************)
InitRender ==
  /\ args = <<"dev">>
  /\ format \in {"dotenv", "shell"}
  /\ pc = "renderValue"
  /\ orgName = "" /\ envName = "dev" /\ path = <<>>
  /\ envID = "s1"
  /\ \E env \in EnvTrees \cup ShapelessTrees :
       /\ opened = Returned(env, <<>>, NoErr)
       /\ calls = <<Call(openRequest("", "dev", Lifetime), "s1", <<>>, NilEnv, NoErr),
                    Call(fetchRequest("", "dev", "s1"), "", <<>>, env, NoErr)>>
  /\ rendered = FALSE
  /\ out = <<>>
  /\ errOut = <<>>
  /\ result = NoErr

NextRender == RenderValue

SpecRender == InitRender /\ [][NextRender]_vars

(***************************************************************************)
(* Properties                                                              *)
(***************************************************************************)
\* the remote calls of a kind made so far
CallsOf(op) == {i \in DOMAIN calls : calls[i].req.op = op}

\* C1: if OpenEnvironment answers with diagnostics, GetOpenEnvironment is
\* never called in the run, renderValue is never invoked and nothing is
\* written to stdout.
C1_DiagnosticsPreempt ==
  \A i \in CallsOf("OpenEnvironment") :
     calls[i].rDiags # <<>> =>
       /\ CallsOf("GetOpenEnvironment") = {}
       /\ pc \notin {"GetOpenEnvironment", "renderValue"}
       /\ ~rendered
       /\ out = <<>>

\* the run is over, OpenEnvironment answered diagnostics and no error, and
\* the diagnostics were written
C1_Witness ==
  /\ pc = "done"
  /\ Len(calls) = 1
  /\ calls[1].rDiags = <<"d1", "d2">>
  /\ calls[1].rErr = NoErr
  /\ errOut = <<"d1", "d2">>

\* the command line holds a user input error: a property path that does
\* not parse, a non-empty path with dotenv or shell, or an unknown format
UserInputError ==
  \/ Len(args) = 2 /\ ~ParsePropertyPath(args[2]).ok
  \/ /\ Len(args) = 2
     /\ ParsePropertyPath(args[2]).ok
     /\ ParsePropertyPath(args[2]).path # <<>>
     /\ format \in {"dotenv", "shell"}
  \/ format \notin {"json", "detailed", "dotenv", "shell", "string"}

\* C2: with a user input error on the command line the run makes no remote
\* call at all and ends with an error.
C2_InputErrorsBeforeRemote ==
  UserInputError =>
    /\ calls = <<>>
    /\ pc \in {"RunE", "done"}
    /\ pc = "done" => result # NoErr

\* the run ended on the unknown format, before any remote call
C2_Witness ==
  /\ pc = "done"
  /\ calls = <<>>
  /\ args = <<"dev", "x.y">>
  /\ format = "bogus"
  /\ result = ErrUnknownFormat("bogus")

\* C3: an error answered by OpenEnvironment or GetOpenEnvironment is the
\* error the command returns; the call is not made again, no call follows
\* it and nothing is rendered.
C3_TransportErrorSurfaced ==
  \A i \in DOMAIN calls :
     calls[i].rErr # NoErr =>
       /\ pc = "done"
       /\ result = calls[i].rErr
       /\ i = Len(calls)
       /\ CallsOf(calls[i].req.op) = {i}
       /\ ~rendered
       /\ out = <<>>

\* GetOpenEnvironment failed, with an environment in its answer, and the
\* run ended on that error
C3_Witness ==
  /\ pc = "done"
  /\ Len(calls) = 2
  /\ calls[2].rErr = ErrTransport("fetch failed")
  /\ ~calls[2].rEnv.isNil
  /\ result = ErrTransport("fetch failed")

\* the property path does not resolve in the environment that was opened
LookupMiss ==
  /\ ~opened.env.isNil
  /\ Len(path) # 0
  /\ ~getEnvValue(MapV(opened.env.Properties), path).ok

\* the empty Value (esc.Value{}) as each format writes it: null in JSON,
\* the Value struct with nothing set in detailed, the empty string
EmptyValueText ==
  CASE format = "json" -> <<110, 117, 108, 108, 10>>
    [] format = "detailed" -> EncodeValue(NullV, 0) \o <<10>>
    [] format = "string" -> <<10>>
    [] OTHER -> <<>>

\* C4: a property path that does not resolve is not an error: with json,
\* detailed or string the empty Value is rendered and the command succeeds.
C4_LookupMissRendersEmpty ==
  (rendered /\ LookupMiss /\ format \in {"json", "detailed", "string"}) =>
    /\ result = NoErr
    /\ out = EmptyValueText

\* x.z was looked up in {"x": {"y": 42}, ...} and null was written
C4_Witness ==
  /\ rendered
  /\ LookupMiss
  /\ args = <<"dev", "x.z">>
  /\ format = "json"
  /\ opened.env = Environment(TreeXY)
  /\ out = <<110, 117, 108, 108, 10>>
  /\ result = NoErr

\* the entries of environmentVariables of the opened environment, and the
\* names of those whose value is a string
Vars == EnvVarsOf(opened.env)
StringVars == {k \in DOMAIN Vars : Vars[k].kind = "string"}

\* what dotenv and shell put before each pair
LinePrefix == IF format = "shell" THEN StrExport ELSE <<>>

\* the sequences of distinct names of string variables, in any order
NameLists == UNION {KeyOrders([k \in S |-> TRUE]) : S \in SUBSET StringVars}

\* the lines of a text: the stretches of bytes each ended by a newline
RECURSIVE SplitLines(_, _)
SplitLines(text, line) ==
  IF text = <<>> THEN (IF line = <<>> THEN <<>> ELSE <<line>>)
  ELSE IF Head(text) = 10 THEN <<line>> \o SplitLines(Tail(text), <<>>)
  ELSE SplitLines(Tail(text), Append(line, Head(text)))
OutLines == SplitLines(out, <<>>)

StartsWith(s, p) == Len(s) >= Len(p) /\ SubSeq(s, 1, Len(p)) = p

\* C5: the lines of dotenv and shell come in strictly ascending byte order
\* of their keys, whatever order the map gave its keys in.
C5_LinesSortedByKey ==
  (rendered /\ format \in {"dotenv", "shell"}) =>
    \E ks \in NameLists :
      /\ \A i \in 1..(Len(ks) - 1) : StrLess(ks[i], ks[i + 1])
      /\ Len(OutLines) = Len(ks)
      /\ \A i \in 1..Len(ks) : StartsWith(OutLines[i], LinePrefix \o ks[i] \o <<61, 34>>)

\* two variables a and A were rendered: the line of A comes first
C5_Witness ==
  /\ rendered
  /\ format = "dotenv"
  /\ DOMAIN Vars = {<<97>>, <<65>>}
  /\ Len(OutLines) = 2
  /\ StartsWith(OutLines[1], <<65, 61>>)
  /\ StartsWith(OutLines[2], <<97, 61>>)

\* the text of dotenv were the values embedded as they are
VerbatimText(ks) ==
  Concat([i \in 1..Len(ks) |-> ks[i] \o <<61, 34>> \o Vars[ks[i]].s \o <<34, 10>>])

\* C6 as the specification states it: each line of dotenv is KEY="VALUE"
\* with the string embedded verbatim between the quotes, nothing escaped.
C6_ValueVerbatim ==
  (rendered /\ format = "dotenv") =>
    \E ks \in NameLists :
      /\ Len(ks) = Cardinality(StringVars)
      /\ out = VerbatimText(ks)

\* the value of a hexadecimal digit, -1 for another byte
HexValue(c) ==
  IF c >= 48 /\ c <= 57 THEN c - 48
  ELSE IF c >= 97 /\ c <= 102 THEN c - 87
  ELSE -1

\* the reading of a double-quoted Go string literal's body: a backslash
\* starts an escape, a bare quote or control byte is not allowed
RECURSIVE Unquote(_)
Unquote(body) ==
  IF body = <<>> THEN [ok |-> TRUE, s |-> <<>>]
  ELSE LET c == Head(body)
       IN IF c = 92
          THEN IF Len(body) < 2 THEN [ok |-> FALSE, s |-> <<>>]
               ELSE LET e == body[2]
                        rest == Unquote(Tail(Tail(body)))
                        b == CASE e = 34 -> 34 [] e = 92 -> 92 [] e = 110 -> 10
                               [] e = 116 -> 9 [] e = 114 -> 13 [] e = 97 -> 7
                               [] e = 98 -> 8 [] e = 102 -> 12 [] e = 118 -> 11
                               [] OTHER -> -1
                    IN IF e = 120
                       THEN \* \xhh: two hexadecimal digits follow
                            IF Len(body) < 4 \/ HexValue(body[3]) = -1 \/ HexValue(body[4]) = -1
                            THEN [ok |-> FALSE, s |-> <<>>]
                            ELSE LET more == Unquote(SubSeq(body, 5, Len(body)))
                                 IN IF ~more.ok THEN [ok |-> FALSE, s |-> <<>>]
                                    ELSE [ok |-> TRUE,
                                          s |-> <<16 * HexValue(body[3]) + HexValue(body[4])>> \o more.s]
                       ELSE IF b = -1 \/ ~rest.ok THEN [ok |-> FALSE, s |-> <<>>]
                       ELSE [ok |-> TRUE, s |-> <<b>> \o rest.s]
          ELSE IF c = 34 \/ c < 32 \/ c = 127 THEN [ok |-> FALSE, s |-> <<>>]
          ELSE LET rest == Unquote(Tail(body))
               IN IF ~rest.ok THEN [ok |-> FALSE, s |-> <<>>]
                  ELSE [ok |-> TRUE, s |-> <<c>> \o rest.s]

\* the string has no byte that %q escapes
PlainString(s) == \A i \in DOMAIN s : s[i] >= 32 /\ s[i] <= 126 /\ s[i] \notin {34, 92}

\* C6 amended: each line of dotenv is KEY="VALUE" where VALUE is the string
\* as a Go string literal (%q): a quote and a backslash in it are written
\* with a backslash before them and a newline as \n, so that the text
\* between the quotes reads back as the string; a string with no such byte
\* is embedded verbatim.
C6_ValueQuoted ==
  (rendered /\ format = "dotenv") =>
    \E ks \in NameLists :
      /\ Len(ks) = Cardinality(StringVars)
      /\ Len(OutLines) = Len(ks)
      /\ \A i \in 1..Len(ks) :
           LET line == OutLines[i]
               head == ks[i] \o <<61, 34>>
               body == SubSeq(line, Len(head) + 1, Len(line) - 1)
               value == Vars[ks[i]].s
           IN /\ StartsWith(line, head)
              /\ Len(line) > Len(head)
              /\ line[Len(line)] = 34
              /\ Unquote(body) = [ok |-> TRUE, s |-> value]
              /\ PlainString(value) => body = value

\* the variable A whose value is a quote followed by a newline was
\* rendered as A="\"\n"
C6_Witness ==
  /\ rendered
  /\ format = "dotenv"
  /\ DOMAIN Vars = {<<65>>}
  /\ Vars[<<65>>] = StrV(<<34, 10>>)
  /\ out = <<65, 61, 34, 92, 34, 92, 110, 34, 10>>

\* C7: dotenv and shell emit exactly one line for each entry whose value is
\* a string and none for an entry of another shape, and return no error.
C7_OneLinePerStringEntry ==
  (rendered /\ format \in {"dotenv", "shell"}) =>
    /\ result = NoErr
    /\ Len(OutLines) = Cardinality(StringVars)
    /\ \A k \in DOMAIN Vars :
         LET mine == {i \in DOMAIN OutLines : StartsWith(OutLines[i], LinePrefix \o k \o <<61, 34>>)}
         IN Cardinality(mine) = IF k \in StringVars THEN 1 ELSE 0

\* a string and a number were the two entries, and one line was written
C7_Witness ==
  /\ rendered
  /\ format = "shell"
  /\ DOMAIN Vars = {<<65>>, <<65, 66>>}
  /\ Vars[<<65>>].kind = "number"
  /\ Vars[<<65, 66>>] = StrV(<<65>>)
  /\ out = StrExport \o <<65, 66, 61, 34, 65, 34, 10>>
  /\ result = NoErr

\* environmentVariables is absent from the tree or is not a mapping
NoEnvVarsMap ==
  /\ ~opened.env.isNil
  /\ MapIndex(opened.env.Properties, EnvVarsKey).kind # "map"

\* C8: when environmentVariables is absent or is not a mapping, dotenv and
\* shell write nothing and return no error.
C8_NoEnvVarsNoOutput ==
  (rendered /\ format \in {"dotenv", "shell"} /\ NoEnvVarsMap) =>
    /\ out = <<>>
    /\ result = NoErr

\* environmentVariables was a string and nothing was written
C8_Witness ==
  /\ rendered
  /\ format = "dotenv"
  /\ EnvVarsKey \in DOMAIN opened.env.Properties
  /\ opened.env.Properties[EnvVarsKey].kind = "string"
  /\ out = <<>>
  /\ result = NoErr

\* C9: OpenEnvironment is called at most once and GetOpenEnvironment at
\* most once; GetOpenEnvironment is called only right after OpenEnvironment
\* has answered with no error and no diagnostics, with the session handle
\* of that answer and the organization and environment of that call.
C9_OpenThenFetch ==
  /\ Cardinality(CallsOf("OpenEnvironment")) <= 1
  /\ Cardinality(CallsOf("GetOpenEnvironment")) <= 1
  /\ \A j \in CallsOf("GetOpenEnvironment") :
       /\ j = 2
       /\ calls[1].req.op = "OpenEnvironment"
       /\ calls[1].rErr = NoErr
       /\ calls[1].rDiags = <<>>
       /\ calls[j].req.envID = calls[1].rEnvID
       /\ calls[j].req.orgName = calls[1].req.orgName
       /\ calls[j].req.envName = calls[1].req.envName
       /\ calls[j].req.orgName = orgName
       /\ calls[j].req.envName = envName

\* the environment acme/prod was opened as session s2 and fetched
C9_Witness ==
  /\ Len(calls) = 2
  /\ calls[1].rEnvID = "s2"
  /\ calls[2].req = fetchRequest("acme", "prod", "s2")

\* C10: openEnvironment never returns diagnostics together with an error
\* or with a tree; when OpenEnvironment answers an error and diagnostics,
\* the error is returned and the diagnostics are dropped, never written;
\* a tree is returned only if OpenEnvironment answered neither.
C10_DiagsErrTreeExclusive ==
  opened.returned =>
    /\ opened.diags # <<>> => (opened.err = NoErr /\ opened.env.isNil)
    /\ (calls[1].rErr # NoErr /\ calls[1].rDiags # <<>>) =>
         /\ opened.err = calls[1].rErr
         /\ opened.diags = <<>>
         /\ errOut = <<>>
         /\ result = calls[1].rErr
    /\ ~opened.env.isNil => (calls[1].rErr = NoErr /\ calls[1].rDiags = <<>>)

\* OpenEnvironment answered an error and diagnostics: the error came back
C10_Witness ==
  /\ opened.returned
  /\ Len(calls) = 1
  /\ calls[1].rErr = ErrTransport("open failed")
  /\ calls[1].rDiags = <<"d1">>
  /\ opened = Returned(NilEnv, <<>>, ErrTransport("open failed"))
  /\ errOut = <<>>

====
